---- MODULE Spec2Model ----
(***************************************************************************)
(* The users REST API of the acquisitions service: the route table, the    *)
(* authenticate middleware, the users controller (fetchAllUsers,           *)
(* getUserById, updateUser, deleteUser) and the users service over the     *)
(* users table.                                                            *)
(*                                                                         *)
(* A request is handled by one slot of Procs.  Every store statement       *)
(* (db.select / db.update / db.delete) is one step, together with the      *)
(* synchronous JavaScript that runs when its await resumes, because the    *)
(* awaits are the only points where the event loop can switch handlers.    *)
(* Each step draws the part of the request it reads (the cookie in         *)
(* authenticate, params and body in the controller).                       *)
(***************************************************************************)
EXTENDS Integers, FiniteSets, Sequences, TLC

----------------------------------------------------------------------------
(* Bounds of the model. *)

\* Requests received in one run.
MaxRequests == 2

\* Largest reading of the millisecond clock.
MaxClock == 1

\* Requests received in one run of the specification of the rate/abuse gate.
MaxGateRequests == 6

----------------------------------------------------------------------------
(* Values. *)

\* Request slots; Spec runs the requests one after another in SeqProcs.
Procs == {"p1", "p2"}

SeqProcs == {"p1"}

\* Ids that a path or a token can name; 1 and 2 exist initially, 3 never did.
Ids == {1, 2, 3}

\* A path parameter the id schema rejects.
BadId == 0

\* A property that is absent from an object (JavaScript undefined).
Undefined == "undefined"

Roles == {"user", "admin"}

Names == {"nx"}

Emails == {"e2", "e9"}

Passwords == {"pw1"}

Methods == {"LIST", "GET", "PUT", "DELETE"}

\* The token cookie when absent, and one that fails verification.
NoToken == [kind |-> "none", id |-> 0, role |-> Undefined]

BadToken == [kind |-> "bad", id |-> 0, role |-> Undefined]

\* Bodies that pass updateUserSchema: every property optional.
NoUpdates ==
  [name |-> Undefined, email |-> Undefined, password |-> Undefined,
   role |-> Undefined]

Bodies ==
  [name : Names \cup {Undefined}, email : Emails \cup {Undefined},
   password : Passwords \cup {Undefined}, role : Roles \cup {Undefined}]

NoUser == [id |-> 0, role |-> Undefined]

NoRow ==
  [id |-> 0, name |-> Undefined, email |-> Undefined, password |-> Undefined,
   role |-> Undefined, createdAt |-> 0, updatedAt |-> 0]

NoUpdateData ==
  [name |-> Undefined, email |-> Undefined, password |-> Undefined,
   role |-> Undefined, updatedAt |-> 0]

BlankReq ==
  [method |-> "NONE", token |-> NoToken, params |-> BadId, bodyValid |-> FALSE,
   body |-> NoUpdates]

BlankLoc == [user |-> NoUser, existingUser |-> NoRow, updateData |-> NoUpdateData]

NoResponse == [status |-> 0, body |-> [message |-> Undefined]]

\* Values of NODE_ENV; Undefined is the variable not being set.
Envs == {"production", "development", Undefined}

\* The two securityMiddleware functions of the repository.
Mounts == {"securityMiddleware", "securityMiddlewareAlt"}

\* The roles securityMiddleware names its rate-limit rules after.
GateRoles == {"guest", "user", "admin"}

\* User-Agent headers, as sequences of characters; the empty one is the
\* header being absent.
NoAgent == <<>>

UserAgents ==
  {NoAgent,
   <<"M", "o", "z", "i", "l", "l", "a", "/", "5", ".", "0">>,
   <<"c", "u", "r", "l", "/", "8", ".", "4">>,
   <<"P", "O", "S", "T", "M", "A", "N", "R", "U", "N", "T", "I", "M", "E", "/", "7">>,
   <<"p", "y", "t", "h", "o", "n", "-", "r", "e", "q", "u", "e", "s", "t", "s">>}

\* What securityMiddleware has not read or decided yet.
BlankGate ==
  [via |-> "none", userAgent |-> NoAgent, role |-> Undefined, limit |-> 0,
   message |-> Undefined, seen |-> 0, decision |-> "none", status |-> 0]

VARIABLES
  users,   \* the users table: id -> row, for the ids that have a row
  now,     \* last reading of the server clock (ms)
  pc,      \* per slot: where its handler is
  req,     \* per slot: the request, as far as it has been read
  loc,     \* per slot: req.user and the locals of the service call
  res,     \* per slot: the response sent
  nreq,    \* requests received so far
  env,     \* process.env.NODE_ENV
  mounted, \* which of the two securityMiddleware functions app.js mounts
  hits,    \* decision service: per rate-limit rule, the requests counted in
           \* the last minute
  gate     \* per slot: what securityMiddleware read and decided

gateVars == <<env, mounted, hits, gate>>

vars == <<users, now, pc, req, loc, res, nreq, env, mounted, hits, gate>>

----------------------------------------------------------------------------
(* Collaborators whose code is outside the source tree. *)

\* jwttoken.verify: returns the payload of a token the server signed and
\* throws on any other token.
JwtVerifyOk(token) == token.kind = "ok"

JwtDecoded(token) == [id |-> token.id, role |-> token.role]

\* userIdSchema.safeParse(req.params).success
UserIdSchemaOk(params) == params > 0

\* hashPassword: a bcrypt hash, never the plaintext.
HashPassword(password) == "$2b$10$" \o password

----------------------------------------------------------------------------
(* users.services.js: the projections and the statements. *)

\* The column list of getAllUsers' select.
GetAllUsersColumns(row) ==
  [id |-> row.id, name |-> row.name, email |-> row.email, role |-> row.role,
   createdAt |-> row.createdAt, updatedAt |-> row.updatedAt]

\* The column list of getUserById's select.
GetUserByIdColumns(row) ==
  [id |-> row.id, name |-> row.name, email |-> row.email, role |-> row.role,
   createdAt |-> row.createdAt, updatedAt |-> row.updatedAt]

\* returning() without a column list: the whole row.
UpdateReturningColumns_All(row) == row

\* The column list of updateUser's returning clause.
UpdateReturningColumns(row) ==
  [id |-> row.id, name |-> row.name, email |-> row.email, role |-> row.role,
   createdAt |-> row.createdAt, updatedAt |-> row.updatedAt]

\* getAllUsers' result: every row, projected.
GetAllUsersResult == {GetAllUsersColumns(users[i]) : i \in DOMAIN users}

\* updateData without the hashing step.
HashedUpdateData_Plain(updates) ==
  [name |-> updates.name, email |-> updates.email,
   password |-> updates.password, role |-> updates.role, updatedAt |-> 0]

\* const updateData = {...updates}; if (updates.password) updateData.password = hash
HashedUpdateData(updates) ==
  [name |-> updates.name, email |-> updates.email,
   password |-> IF updates.password # Undefined
                THEN HashPassword(updates.password)
                ELSE updates.password,
   role |-> updates.role, updatedAt |-> 0]

\* if (updates.email && updates.email !== existingUser.email)
EmailCheckNeeded(updates, existingUser) ==
  updates.email # Undefined /\ updates.email # existingUser.email

\* The lookup by email never finding a row.
EmailExists_Never(email) == FALSE

\* select().from(users).where(eq(users.email, email)).limit(1) finds a row
EmailExists(email) == \E i \in DOMAIN users : users[i].email = email

\* set() writing every property of the body, the absent ones included.
SetRow_Overwrite(row, updateData) ==
  [id |-> row.id, name |-> updateData.name, email |-> updateData.email,
   password |-> updateData.password, role |-> updateData.role,
   createdAt |-> row.createdAt, updatedAt |-> updateData.updatedAt]

\* set() without the refreshed updatedAt.
SetRow_KeepsStamp(row, updateData) ==
  [id |-> row.id,
   name |-> IF updateData.name # Undefined THEN updateData.name ELSE row.name,
   email |-> IF updateData.email # Undefined THEN updateData.email ELSE row.email,
   password |-> IF updateData.password # Undefined THEN updateData.password
                ELSE row.password,
   role |-> IF updateData.role # Undefined THEN updateData.role ELSE row.role,
   createdAt |-> row.createdAt,
   updatedAt |-> row.updatedAt]

\* update(users).set(updateData): the properties that are defined overwrite
\* the row's columns.
SetRow(row, updateData) ==
  [id |-> row.id,
   name |-> IF updateData.name # Undefined THEN updateData.name ELSE row.name,
   email |-> IF updateData.email # Undefined THEN updateData.email ELSE row.email,
   password |-> IF updateData.password # Undefined THEN updateData.password
                ELSE row.password,
   role |-> IF updateData.role # Undefined THEN updateData.role ELSE row.role,
   createdAt |-> row.createdAt,
   updatedAt |-> updateData.updatedAt]

\* delete(users) without its where clause.
DeleteRow_All(id) == [i \in {} |-> users[i]]

\* delete(users).where(eq(users.id, id))
DeleteRow(id) == [i \in DOMAIN users \ {id} |-> users[i]]

\* deleteUser's return value
DeleteAck(id) == [id |-> id, message |-> "User deleted successfully"]

----------------------------------------------------------------------------
(* users.controller.js: the access control of updateUser and deleteUser. *)

UpdateIsOwnProfile(user, id) == user.id = id

\* isAdmin read from the actor's row in the table instead of the token.
UpdateIsAdmin_Stored(user) ==
  user.id \in DOMAIN users /\ users[user.id].role = "admin"

\* const isAdmin = req.user.role === 'admin'
UpdateIsAdmin(user) == user.role = "admin"

\* updateUser checking ownership only, with no exception for admins.
UpdateOwnershipDenied_NoAdmin(user, id) == ~UpdateIsOwnProfile(user, id)

\* if (!isOwnProfile && !isAdmin) -> 403
UpdateOwnershipDenied(user, id) ==
  ~UpdateIsOwnProfile(user, id) /\ ~UpdateIsAdmin(user)

\* The role check left out of updateUser.
UpdateRoleChangeDenied_Dropped(user, updates) == FALSE

\* if (updates.role && !isAdmin) -> 403
UpdateRoleChangeDenied(user, updates) ==
  updates.role # Undefined /\ ~UpdateIsAdmin(user)

DeleteIsOwnProfile(user, id) == user.id = id

DeleteIsAdmin(user) == user.role = "admin"

\* deleteUser checking ownership only, with no exception for admins.
DeleteOwnershipDenied_NoAdmin(user, id) == ~DeleteIsOwnProfile(user, id)

\* if (!isOwnProfile && !isAdmin) -> 403
DeleteOwnershipDenied(user, id) ==
  ~DeleteIsOwnProfile(user, id) /\ ~DeleteIsAdmin(user)

----------------------------------------------------------------------------
(* Responses. *)

ValidationFailed == [error |-> "Validation failed", details |-> "details"]

UserNotFound == [error |-> "User not found"]

EmailInUse == [error |-> "Email already in use"]

NoTokenProvided ==
  [error |-> "Authentication required", message |-> "No token provided"]

InvalidOrExpiredToken ==
  [error |-> "Authentication failed", message |-> "Invalid or expired token"]

UpdateLoginRequired ==
  [error |-> "Authentication required",
   message |-> "You must be logged in to update user information"]

DeleteLoginRequired ==
  [error |-> "Authentication required",
   message |-> "You must be logged in to delete users"]

UpdateOwnProfileOnly ==
  [error |-> "Forbidden", message |-> "You can only update your own profile"]

OnlyAdminsChangeRoles ==
  [error |-> "Forbidden", message |-> "Only admins can change user roles"]

DeleteOwnProfileOnly ==
  [error |-> "Forbidden",
   message |-> "You can only delete your own profile or be an admin"]

\* res.status(status).json(body): the handler is finished.
Reply(p, status, body) ==
  /\ res' = [res EXCEPT ![p] = [status |-> status, body |-> body]]
  /\ pc' = [pc EXCEPT ![p] = "done"]

\* The handler goes on to its next await.
Goto(p, label) ==
  /\ pc' = [pc EXCEPT ![p] = label]
  /\ UNCHANGED res

\* new Date(): the clock never runs backwards, and may not have advanced
\* since it was last read.
ClockReadings == now .. MaxClock

----------------------------------------------------------------------------
(* The state after start-up: two users created earlier, no request in      *)
(* flight.                                                                 *)

InitialUsers ==
  [i \in {1, 2} |->
    [id |-> i,
     name |-> IF i = 1 THEN "n1" ELSE "n2",
     email |-> IF i = 1 THEN "e1" ELSE "e2",
     password |-> HashPassword("pw0"),
     role |-> IF i = 1 THEN "user" ELSE "admin",
     createdAt |-> 0,
     updatedAt |-> 0]]

\* The cookies a request can carry: none, one that fails verification, or a
\* token signed at sign-in for one of the initial users (its id and its role
\* at that time).
Tokens ==
  {NoToken, BadToken} \cup
  {[kind |-> "ok", id |-> InitialUsers[i].id, role |-> InitialUsers[i].role] :
     i \in DOMAIN InitialUsers}

Init ==
  /\ users = InitialUsers
  /\ now = 0
  /\ pc = [p \in Procs |-> "idle"]
  /\ req = [p \in Procs |-> BlankReq]
  /\ loc = [p \in Procs |-> BlankLoc]
  /\ res = [p \in Procs |-> NoResponse]
  /\ nreq = 0
  /\ env = "development"
  /\ mounted = "securityMiddleware"
  /\ hits = [r \in GateRoles |-> 0]
  /\ gate = [p \in Procs |-> BlankGate]

----------------------------------------------------------------------------
(* users.routes.js: the route table. *)

\* router.put and router.delete run authenticate before the controller.
RouteRequiresAuth(method) == method \in {"PUT", "DELETE"}

\* The first function of the route of a request.
RouteEntry(method) ==
  IF RouteRequiresAuth(method) THEN "authenticate" ELSE "controller"

\* A request arrives, at most max of them in a run: the middleware chain of
\* the app runs before the router, securityMiddleware last in it.
ReceiveUpTo(p, max) ==
  /\ pc[p] = "idle"
  /\ nreq < max
  /\ \E method \in Methods :
       req' = [req EXCEPT ![p] = [BlankReq EXCEPT !.method = method]]
  /\ pc' = [pc EXCEPT ![p] = "security"]
  /\ nreq' = nreq + 1
  /\ UNCHANGED <<users, now, loc, res>>
  /\ UNCHANGED gateVars

Receive(p) == ReceiveUpTo(p, MaxRequests)

\* The response has been sent; the slot is free again.
Close(p) ==
  /\ pc[p] = "done"
  /\ pc' = [pc EXCEPT ![p] = "idle"]
  /\ req' = [req EXCEPT ![p] = BlankReq]
  /\ loc' = [loc EXCEPT ![p] = BlankLoc]
  /\ res' = [res EXCEPT ![p] = NoResponse]
  /\ gate' = [gate EXCEPT ![p] = BlankGate]
  /\ UNCHANGED <<users, now, nreq, env, mounted, hits>>

----------------------------------------------------------------------------
(* security.middleware.js: the rate/abuse gate. The file holds two
   securityMiddleware functions; `mounted` says which one app.js uses. *)

UpperCaseLetters ==
  <<"A", "B", "C", "D", "E", "F", "G", "H", "I", "J", "K", "L", "M", "N", "O", "P", "Q", "R", "S", "T", "U", "V", "W", "X", "Y", "Z">>

LowerCaseLetters ==
  <<"a", "b", "c", "d", "e", "f", "g", "h", "i", "j", "k", "l", "m", "n", "o", "p", "q", "r", "s", "t", "u", "v", "w", "x", "y", "z">>

ToLowerCaseChar(c) ==
  IF \E i \in DOMAIN UpperCaseLetters : UpperCaseLetters[i] = c
  THEN LowerCaseLetters[CHOOSE i \in DOMAIN UpperCaseLetters :
                          UpperCaseLetters[i] = c]
  ELSE c

\* String.prototype.toLowerCase
ToLowerCase(s) == [i \in DOMAIN s |-> ToLowerCaseChar(s[i])]

\* String.prototype.includes, for a non-empty t
Includes(s, t) ==
  \E i \in 1 .. (Len(s) - Len(t) + 1) : SubSeq(s, i, i + Len(t) - 1) = t

whitelistedUserAgents ==
  {<<"P", "o", "s", "t", "m", "a", "n", "R", "u", "n", "t", "i", "m", "e">>,
   <<"i", "n", "s", "o", "m", "n", "i", "a">>,
   <<"T", "h", "u", "n", "d", "e", "r", " ", "C", "l", "i", "e", "n", "t">>,
   <<"H", "T", "T", "P", "i", "e">>,
   <<"c", "u", "r", "l">>,
   <<"a", "x", "i", "o", "s">>,
   <<"n", "o", "d", "e", "-", "f", "e", "t", "c", "h">>}

\* whitelistedUserAgents.some(agent =>
\*   userAgent.toLowerCase().includes(agent.toLowerCase()))
IsWhitelisted(userAgent) ==
  \E agent \in whitelistedUserAgents :
    Includes(ToLowerCase(userAgent), ToLowerCase(agent))

\* process.env.NODE_ENV || 'development'
NodeEnv(e) == IF e = Undefined THEN "development" ELSE e

\* req.user?.role || 'guest'
SecurityRole(user) == IF user = NoUser THEN "guest" ELSE user.role

\* The switch with the guest ceiling doubled.
SecurityLimit_GuestTen(role) ==
  CASE role = "admin" -> 20
    [] role = "user" -> 10
    [] OTHER -> 10

\* switch (role): limit
SecurityLimit(role) ==
  CASE role = "admin" -> 20
    [] role = "user" -> 10
    [] role = "guest" -> 5
    [] OTHER -> 5

\* switch (role): message
SecurityMessage(role) ==
  CASE role = "admin" ->
         "Admin request limit exceeded (20 per minute). Slow down!"
    [] role = "user" ->
         "User request limit exceeded (10 per minute). Slow down!"
    [] role = "guest" ->
         "Guest request limit exceeded (5 per minute). Slow down!"
    [] OTHER -> "Request limit exceeded. Slow down!"

BotBlocked ==
  [error |-> "Forbidden", message |-> "Automated requests are not allowed"]

ShieldBlocked ==
  [error |-> "Forbidden", message |-> "Request blocked by security policy"]

TooManyRequests(message) ==
  [error |-> "Too Many Requests", message |-> message]

SecurityMiddlewareError ==
  [error |-> "Internal Server Error",
   message |-> "Something went wrong with security middleware"]

\* What the decision service finds in a request besides its rate: nothing, a
\* bot, an attack, or it fails (the call throws).
Signals == {"clean", "bot", "shield", "error"}

\* client.protect(req) with the sliding-window rule named after the role: a
\* clean request is denied once the rule has counted max requests in the last
\* minute.
Protect(role, max, signal) ==
  IF signal # "clean" THEN signal
  ELSE IF hits[role] >= max THEN "rate"
  ELSE "allow"

\* What the gate reads and decides for a request it submits to the decision
\* service.
GateConsult(p, userAgent, signal) ==
  LET role == SecurityRole(loc[p].user)
      limit == SecurityLimit(role)
  IN  [via |-> "protect", userAgent |-> userAgent, role |-> role,
       limit |-> limit, message |-> SecurityMessage(role),
       seen |-> hits[role], decision |-> Protect(role, limit, signal),
       status |-> 0]

\* The decision service counts the requests it allows.
Counted(g) ==
  IF g.decision = "allow" THEN [hits EXCEPT ![g.role] = @ + 1] ELSE hits

\* next(): the router dispatches the request to its route.
GatePass(p, g) ==
  /\ gate' = [gate EXCEPT ![p] = g]
  /\ Goto(p, RouteEntry(req[p].method))

\* The gate answers the request itself.
GateAnswer(p, g, status, body) ==
  /\ gate' = [gate EXCEPT ![p] = [g EXCEPT !.status = status]]
  /\ Reply(p, status, body)

\* securityMiddleware, the function with the bypass and the allow-list.
SecurityMiddleware(p) ==
  /\ pc[p] = "security"
  /\ mounted = "securityMiddleware"
  /\ IF NodeEnv(env) # "production"
     THEN /\ GatePass(p, [BlankGate EXCEPT !.via = "bypass"])
          /\ UNCHANGED hits
     ELSE \E userAgent \in UserAgents :
            IF IsWhitelisted(userAgent)
            THEN /\ GatePass(p, [BlankGate EXCEPT !.via = "whitelist",
                                                  !.userAgent = userAgent])
                 /\ UNCHANGED hits
            ELSE \E signal \in Signals :
                   LET g == GateConsult(p, userAgent, signal)
                   IN  /\ hits' = Counted(g)
                       /\ CASE g.decision = "bot" ->
                                 GateAnswer(p, g, 403, BotBlocked)
                            [] g.decision = "shield" ->
                                 GateAnswer(p, g, 403, ShieldBlocked)
                            [] g.decision = "rate" ->
                                 GateAnswer(p, g, 429,
                                            TooManyRequests(g.message))
                            [] g.decision = "error" -> GatePass(p, g)
                            [] OTHER -> GatePass(p, g)
  /\ UNCHANGED <<users, now, req, loc, nreq, env, mounted>>

\* securityMiddleware, the function without bypass and allow-list.
SecurityMiddlewareAlt(p) ==
  /\ pc[p] = "security"
  /\ mounted = "securityMiddlewareAlt"
  /\ \E userAgent \in UserAgents, signal \in Signals :
       LET g == GateConsult(p, userAgent, signal)
       IN  /\ hits' = Counted(g)
           /\ CASE g.decision = "bot" -> GateAnswer(p, g, 403, BotBlocked)
                [] g.decision = "shield" ->
                     GateAnswer(p, g, 403, ShieldBlocked)
                [] g.decision = "rate" ->
                     GateAnswer(p, g, 429,
                                TooManyRequests("Too many requests"))
                [] g.decision = "error" ->
                     GateAnswer(p, g, 500, SecurityMiddlewareError)
                [] OTHER -> GatePass(p, g)
  /\ UNCHANGED <<users, now, req, loc, nreq, env, mounted>>

\* The oldest counted request of a rule is now older than one minute.
WindowSlide ==
  /\ \E role \in GateRoles :
       /\ hits[role] > 0
       /\ hits' = [hits EXCEPT ![role] = @ - 1]
  /\ UNCHANGED <<users, now, pc, req, loc, res, nreq, env, mounted, gate>>

----------------------------------------------------------------------------
(* auth.middleware.js *)

\* authenticate without its check for an absent cookie: verify then throws.
TokenMissing_Dropped(token) == FALSE

\* if (!token)
TokenMissing(token) == token.kind = "none"

Authenticate(p) ==
  /\ pc[p] = "authenticate"
  /\ \E token \in Tokens :
       /\ req' = [req EXCEPT ![p].token = token]
       /\ IF TokenMissing(token)
          THEN Reply(p, 401, NoTokenProvided) /\ UNCHANGED loc
          ELSE IF ~JwtVerifyOk(token)
          THEN Reply(p, 401, InvalidOrExpiredToken) /\ UNCHANGED loc
          ELSE /\ loc' = [loc EXCEPT ![p].user = JwtDecoded(token)]
               /\ Goto(p, "controller")
  /\ UNCHANGED <<users, now, nreq>>
  /\ UNCHANGED gateVars

----------------------------------------------------------------------------
(* users.controller.js and users.services.js: GET /users *)

FetchAllUsers(p) ==
  /\ pc[p] = "controller"
  /\ req[p].method = "LIST"
  /\ Goto(p, "getAllUsers")
  /\ UNCHANGED <<users, now, req, loc, nreq>>
  /\ UNCHANGED gateVars

\* The select of getAllUsers, and fetchAllUsers' response.
GetAllUsers(p) ==
  /\ pc[p] = "getAllUsers"
  /\ Reply(p, 200,
           [message |-> "All users fetched successfully",
            users |-> GetAllUsersResult,
            count |-> Cardinality(GetAllUsersResult)])
  /\ UNCHANGED <<users, now, req, loc, nreq>>
  /\ UNCHANGED gateVars

----------------------------------------------------------------------------
(* GET /users/:id *)

GetUserById(p) ==
  /\ pc[p] = "controller"
  /\ req[p].method = "GET"
  /\ \E params \in Ids \cup {BadId} :
       /\ req' = [req EXCEPT ![p].params = params]
       /\ IF ~UserIdSchemaOk(params)
          THEN Reply(p, 400, ValidationFailed)
          ELSE Goto(p, "getUserById")
  /\ UNCHANGED <<users, now, loc, nreq>>
  /\ UNCHANGED gateVars

\* The select of the service's getUserById, and the controller's response.
GetUserByIdService(p) ==
  /\ pc[p] = "getUserById"
  /\ LET id == req[p].params IN
       IF id \notin DOMAIN users
       THEN Reply(p, 404, UserNotFound)
       ELSE Reply(p, 200,
                  [message |-> "User fetched successfully",
                   user |-> GetUserByIdColumns(users[id])])
  /\ UNCHANGED <<users, now, req, loc, nreq>>
  /\ UNCHANGED gateVars

----------------------------------------------------------------------------
(* PUT /users/:id *)

\* The controller up to the call of the service.
UpdateUser(p) ==
  /\ pc[p] = "controller"
  /\ req[p].method = "PUT"
  /\ \E params \in Ids \cup {BadId}, bodyValid \in BOOLEAN, body \in Bodies :
       /\ ~bodyValid => body = NoUpdates
       /\ req' = [req EXCEPT ![p].params = params, ![p].bodyValid = bodyValid,
                             ![p].body = body]
       /\ IF ~UserIdSchemaOk(params) THEN Reply(p, 400, ValidationFailed)
          ELSE IF ~bodyValid THEN Reply(p, 400, ValidationFailed)
          ELSE IF loc[p].user = NoUser THEN Reply(p, 401, UpdateLoginRequired)
          ELSE IF UpdateOwnershipDenied(loc[p].user, params)
          THEN Reply(p, 403, UpdateOwnProfileOnly)
          ELSE IF UpdateRoleChangeDenied(loc[p].user, body)
          THEN Reply(p, 403, OnlyAdminsChangeRoles)
          ELSE Goto(p, "updateUser_select")
  /\ UNCHANGED <<users, now, loc, nreq>>
  /\ UNCHANGED gateVars

\* updateData.updatedAt = new Date(), then the update statement is issued.
UpdateStamp(p, existingUser, updateData) ==
  \E t \in ClockReadings :
    /\ now' = t
    /\ loc' = [loc EXCEPT ![p].existingUser = existingUser,
                          ![p].updateData = [updateData EXCEPT !.updatedAt = t]]
    /\ Goto(p, "updateUser_write")

\* The service's first select, and what runs when it resumes.
UpdateUserSelect(p) ==
  /\ pc[p] = "updateUser_select"
  /\ LET id == req[p].params
         updates == req[p].body
     IN IF id \notin DOMAIN users
        THEN Reply(p, 404, UserNotFound) /\ UNCHANGED <<now, loc>>
        ELSE IF EmailCheckNeeded(updates, users[id])
        THEN /\ loc' = [loc EXCEPT ![p].existingUser = users[id],
                                   ![p].updateData = HashedUpdateData(updates)]
             /\ Goto(p, "updateUser_email")
             /\ UNCHANGED now
        ELSE UpdateStamp(p, users[id], HashedUpdateData(updates))
  /\ UNCHANGED <<users, req, nreq>>
  /\ UNCHANGED gateVars

\* The select by email, and what runs when it resumes.
UpdateUserEmailCheck(p) ==
  /\ pc[p] = "updateUser_email"
  /\ IF EmailExists(req[p].body.email)
     THEN Reply(p, 409, EmailInUse) /\ UNCHANGED <<now, loc>>
     ELSE UpdateStamp(p, loc[p].existingUser, loc[p].updateData)
  /\ UNCHANGED <<users, req, nreq>>
  /\ UNCHANGED gateVars

\* The update statement on a table with a unique index on email: a write
\* that would duplicate an email fails, and the fallback handler answers 500.
UpdateUserWrite_UniqueIndex(p) ==
  /\ pc[p] = "updateUser_write"
  /\ LET id == req[p].params
         email == loc[p].updateData.email
     IN IF id \notin DOMAIN users
        THEN /\ users' = users
             /\ Reply(p, 200, [message |-> "User updated successfully"])
        ELSE IF \E j \in DOMAIN users \ {id} : users[j].email = email
        THEN /\ users' = users
             /\ Reply(p, 500, [error |-> "Internal Server Error"])
        ELSE /\ users' = [users EXCEPT
                           ![id] = SetRow(users[id], loc[p].updateData)]
             /\ Reply(p, 200,
                      [message |-> "User updated successfully",
                       user |-> UpdateReturningColumns(users'[id])])
  /\ UNCHANGED <<now, req, loc, nreq>>
  /\ UNCHANGED gateVars

\* The update statement with its returning clause, and the response.
UpdateUserWrite(p) ==
  /\ pc[p] = "updateUser_write"
  /\ LET id == req[p].params IN
       IF id \in DOMAIN users
       THEN /\ users' = [users EXCEPT ![id] = SetRow(users[id], loc[p].updateData)]
            /\ Reply(p, 200,
                     [message |-> "User updated successfully",
                      user |-> UpdateReturningColumns(users'[id])])
       ELSE /\ users' = users
            /\ Reply(p, 200, [message |-> "User updated successfully"])
  /\ UNCHANGED <<now, req, loc, nreq>>
  /\ UNCHANGED gateVars

----------------------------------------------------------------------------
(* DELETE /users/:id *)

\* The controller up to the call of the service.
DeleteUser(p) ==
  /\ pc[p] = "controller"
  /\ req[p].method = "DELETE"
  /\ \E params \in Ids \cup {BadId} :
       /\ req' = [req EXCEPT ![p].params = params]
       /\ IF ~UserIdSchemaOk(params) THEN Reply(p, 400, ValidationFailed)
          ELSE IF loc[p].user = NoUser THEN Reply(p, 401, DeleteLoginRequired)
          ELSE IF DeleteOwnershipDenied(loc[p].user, params)
          THEN Reply(p, 403, DeleteOwnProfileOnly)
          ELSE Goto(p, "deleteUser_select")
  /\ UNCHANGED <<users, now, loc, nreq>>
  /\ UNCHANGED gateVars

\* The service's select.
DeleteUserSelect(p) ==
  /\ pc[p] = "deleteUser_select"
  /\ LET id == req[p].params IN
       IF id \notin DOMAIN users
       THEN Reply(p, 404, UserNotFound) /\ UNCHANGED loc
       ELSE /\ loc' = [loc EXCEPT ![p].existingUser = users[id]]
            /\ Goto(p, "deleteUser_delete")
  /\ UNCHANGED <<users, now, req, nreq>>
  /\ UNCHANGED gateVars

\* The delete statement, and the response.
DeleteUserDelete(p) ==
  /\ pc[p] = "deleteUser_delete"
  /\ users' = DeleteRow(req[p].params)
  /\ Reply(p, 200,
           [message |-> "User deleted successfully",
            result |-> DeleteAck(req[p].params)])
  /\ UNCHANGED <<now, req, loc, nreq>>
  /\ UNCHANGED gateVars

----------------------------------------------------------------------------
(* Requests handled one after another. *)

Next ==
  \E p \in SeqProcs :
    \/ Receive(p)
    \/ SecurityMiddleware(p)
    \/ Authenticate(p)
    \/ FetchAllUsers(p)
    \/ GetAllUsers(p)
    \/ GetUserById(p)
    \/ GetUserByIdService(p)
    \/ UpdateUser(p)
    \/ UpdateUserSelect(p)
    \/ UpdateUserEmailCheck(p)
    \/ UpdateUserWrite(p)
    \/ DeleteUser(p)
    \/ DeleteUserSelect(p)
    \/ DeleteUserDelete(p)
    \/ Close(p)

Spec == Init /\ [][Next]_vars

----------------------------------------------------------------------------
(* Concurrent requests: the handlers are async functions, so between two store
   statements of one request any step of another request may run. *)

\* One request per slot, all of them in flight together.
ConcReceive(p) == ReceiveUpTo(p, Cardinality(Procs))

NextConc ==
  \E p \in Procs :
    \/ ConcReceive(p)
    \/ SecurityMiddleware(p)
    \/ Authenticate(p)
    \/ FetchAllUsers(p)
    \/ GetAllUsers(p)
    \/ GetUserById(p)
    \/ GetUserByIdService(p)
    \/ UpdateUser(p)
    \/ UpdateUserSelect(p)
    \/ UpdateUserEmailCheck(p)
    \/ UpdateUserWrite(p)
    \/ DeleteUser(p)
    \/ DeleteUserSelect(p)
    \/ DeleteUserDelete(p)
    \/ Close(p)

SpecConc == Init /\ [][NextConc]_vars

----------------------------------------------------------------------------
(* The rate/abuse gate in every deployment: any NODE_ENV, either
   securityMiddleware, and enough requests to exceed the guest ceiling. What
   the handlers do with a request the gate passed on is specified above and
   does not touch the gate's state, so here a handler only answers. *)

InitGate ==
  /\ users = InitialUsers
  /\ now = 0
  /\ pc = [p \in Procs |-> "idle"]
  /\ req = [p \in Procs |-> BlankReq]
  /\ loc = [p \in Procs |-> BlankLoc]
  /\ res = [p \in Procs |-> NoResponse]
  /\ nreq = 0
  /\ env \in Envs
  /\ mounted \in Mounts
  /\ hits = [r \in GateRoles |-> 0]
  /\ gate = [p \in Procs |-> BlankGate]

GateReceive(p) == ReceiveUpTo(p, MaxGateRequests)

\* The controller of the route answers the request.
Handle(p) ==
  /\ pc[p] = "controller"
  /\ pc' = [pc EXCEPT ![p] = "handled"]
  /\ UNCHANGED <<users, now, req, loc, res, nreq>>
  /\ UNCHANGED gateVars

\* The response of the controller has been sent; the slot is free again.
HandleClose(p) ==
  /\ pc[p] = "handled"
  /\ pc' = [pc EXCEPT ![p] = "idle"]
  /\ req' = [req EXCEPT ![p] = BlankReq]
  /\ loc' = [loc EXCEPT ![p] = BlankLoc]
  /\ gate' = [gate EXCEPT ![p] = BlankGate]
  /\ UNCHANGED <<users, now, res, nreq, env, mounted, hits>>

NextGate ==
  \/ \E p \in SeqProcs :
       \/ GateReceive(p)
       \/ SecurityMiddleware(p)
       \/ SecurityMiddlewareAlt(p)
       \/ Authenticate(p)
       \/ Handle(p)
       \/ HandleClose(p)
       \/ Close(p)
  \/ WindowSlide

SpecGate == InitGate /\ [][NextGate]_vars

----------------------------------------------------------------------------
(* Vocabulary of the properties. *)

Done(p) == pc[p] = "done"

\* The handler of p is inside a call of the users service.
InService(p) ==
  pc[p] \in {"getAllUsers", "getUserById", "updateUser_select",
             "updateUser_email", "updateUser_write", "deleteUser_select",
             "deleteUser_delete"}

\* The response of p came from the users service (its result or its error).
FromService(p) == Done(p) /\ res[p].status \in {200, 404, 409}

\* p holds an update whose id and body passed validation, by a verified actor.
ValidUpdate(p) ==
  /\ req[p].method = "PUT"
  /\ loc[p].user # NoUser
  /\ UserIdSchemaOk(req[p].params)
  /\ req[p].bodyValid

\* p holds a delete whose id passed validation, by a verified actor.
ValidDelete(p) ==
  /\ req[p].method = "DELETE"
  /\ loc[p].user # NoUser
  /\ UserIdSchemaOk(req[p].params)

ActorIsAdmin(p) == loc[p].user.role = "admin"

ActorIsOwner(p) == loc[p].user.id = req[p].params

\* A step that answers a request with anything but 200 leaves the table as
\* it was.
FailureKeepsUsers ==
  \A p \in Procs :
    (~Done(p) /\ pc'[p] = "done" /\ res'[p].status # 200) => users' = users

----------------------------------------------------------------------------
(* C1 *)

\* What every finished update that carries a role looks like when the actor
\* is not an admin: 403.
C1_NonAdminForbidden ==
  \A p \in Procs :
    (Done(p) /\ ValidUpdate(p) /\ req[p].body.role # Undefined
       /\ ~ActorIsAdmin(p))
    => res[p].status = 403

\* C1 as stated: an update carrying a role is answered 403 when the actor is
\* not an admin, and 200 with the role stored when an admin acts on another
\* user's existing record.
C1_Original ==
  /\ C1_NonAdminForbidden
  /\ \A p \in Procs :
       (Done(p) /\ ValidUpdate(p) /\ req[p].body.role # Undefined
          /\ ActorIsAdmin(p) /\ ~ActorIsOwner(p)
          /\ req[p].params \in DOMAIN users)
       => (res[p].status = 200 /\ users[req[p].params].role = req[p].body.role)

\* The admin's outcome on another user's existing record: the role is stored
\* with 200, or the body also carried an email that another record holds and
\* the answer is 409.
C1_AdminOutcome ==
  \A p \in Procs :
    (Done(p) /\ ValidUpdate(p) /\ req[p].body.role # Undefined
       /\ ActorIsAdmin(p) /\ ~ActorIsOwner(p)
       /\ req[p].params \in DOMAIN users)
    => \/ /\ res[p].status = 200
          /\ users[req[p].params].role = req[p].body.role
       \/ /\ res[p].status = 409
          /\ \E i \in DOMAIN users :
               i # req[p].params /\ users[i].email = req[p].body.email

\* C1 (amended): for every update whose validated body includes a role, by a
\* verified actor: a non-admin actor (owner or not, whatever else the body
\* carries) is answered 403 and the table does not change; an admin acting on
\* another user's existing record is answered 200 with the requested role
\* stored, unless the body also carries an email held by a different record,
\* which is answered 409 with the table unchanged.
C1_RoleChangeRequiresAdmin ==
  /\ [](C1_NonAdminForbidden /\ C1_AdminOutcome)
  /\ [][FailureKeepsUsers]_vars

\* An admin has changed another user's role.
C1_Witness ==
  \E p \in Procs :
    /\ Done(p) /\ ValidUpdate(p) /\ ActorIsAdmin(p)
    /\ req[p].params = 1 /\ loc[p].user.id = 2
    /\ req[p].body.role = "admin"
    /\ res[p].status = 200
    /\ users[1].role = "admin"

----------------------------------------------------------------------------
(* C2 *)

\* An actor who is neither the target nor an admin is answered 403 and the
\* service is not called.
C2_StrangerForbidden ==
  \A p \in Procs :
    ((ValidUpdate(p) \/ ValidDelete(p)) /\ ~ActorIsOwner(p) /\ ~ActorIsAdmin(p))
    => /\ ~InService(p)
       /\ Done(p) => res[p].status = 403

\* C2 as stated: on update and delete, an actor who is neither the target nor
\* an admin is answered 403 without the store being called, and an actor who
\* is the target or an admin proceeds to the store.
C2_Original ==
  /\ C2_StrangerForbidden
  /\ \A p \in Procs :
       (Done(p) /\ (ValidUpdate(p) \/ ValidDelete(p))
          /\ (ActorIsOwner(p) \/ ActorIsAdmin(p)))
       => FromService(p)

\* The owner or an admin reaches the service, except with an update that
\* carries a role from a non-admin, which is answered 403.
C2_OwnerOrAdminProceeds ==
  \A p \in Procs :
    (Done(p) /\ (ValidUpdate(p) \/ ValidDelete(p))
       /\ (ActorIsOwner(p) \/ ActorIsAdmin(p)))
    => IF req[p].method = "PUT" /\ req[p].body.role # Undefined
          /\ ~ActorIsAdmin(p)
       THEN res[p].status = 403
       ELSE FromService(p)

\* C2 (amended): on update and on delete alike, a verified actor whose id
\* differs from the target id and whose role is not admin is answered 403, the
\* service is never called and the table does not change; an actor who is the
\* target or an admin proceeds to the service, except that an update carrying
\* a role from a non-admin owner is answered 403 by the role check.
C2_OwnershipOrAdmin ==
  /\ [](C2_StrangerForbidden /\ C2_OwnerOrAdminProceeds)
  /\ [][FailureKeepsUsers]_vars

\* A user who is not an admin was refused the deletion of another existing
\* user.
C2_Witness ==
  \E p \in Procs :
    /\ Done(p) /\ ValidDelete(p) /\ ~ActorIsAdmin(p)
    /\ req[p].params = 2 /\ loc[p].user.id = 1
    /\ res[p].status = 403
    /\ 2 \in DOMAIN users

----------------------------------------------------------------------------
(* C3 *)

\* C3: on PUT and DELETE /users/:id a request without the token cookie is
\* answered 401 "Authentication required", one whose token fails verification
\* is answered 401 "Authentication failed", neither reaches the controller or
\* the service nor changes the table; a request is in the controller or the
\* service only with a token that verifies, and req.user is its payload.
C3_AuthenticationGate ==
  /\ [](\A p \in Procs :
          RouteRequiresAuth(req[p].method) =>
            /\ (Done(p) /\ req[p].token = NoToken)
                => /\ res[p].status = 401
                   /\ res[p].body.error = "Authentication required"
                   /\ loc[p].user = NoUser
            /\ (Done(p) /\ req[p].token = BadToken)
                => /\ res[p].status = 401
                   /\ res[p].body.error = "Authentication failed"
                   /\ loc[p].user = NoUser
            /\ (pc[p] = "controller" \/ InService(p) \/ FromService(p))
                => /\ JwtVerifyOk(req[p].token)
                   /\ loc[p].user = JwtDecoded(req[p].token))
  /\ [][FailureKeepsUsers]_vars

\* An update with a token that fails verification has been answered 401.
C3_Witness ==
  \E p \in Procs :
    /\ Done(p) /\ req[p].method = "PUT" /\ req[p].token = BadToken
    /\ res[p].status = 401 /\ res[p].body.error = "Authentication failed"

----------------------------------------------------------------------------
(* C4 *)

\* The target of p's update or delete had no row when the request was handled.
TargetAbsent(p) ==
  req[p].params \notin DOMAIN users /\ loc[p].existingUser = NoRow

\* The access checks of the controller let p's request through.
PassedAccessControl(p) ==
  /\ ActorIsOwner(p) \/ ActorIsAdmin(p)
  /\ ~(req[p].method = "PUT" /\ req[p].body.role # Undefined /\ ~ActorIsAdmin(p))

\* C4 as stated: for every verified actor, an update or delete of an id that
\* has no row is answered 404 and never 403.
C4_Original ==
  \A p \in Procs :
    (Done(p) /\ (ValidUpdate(p) \/ ValidDelete(p)) /\ TargetAbsent(p))
    => res[p].status = 404

\* C4 (amended): an update or delete of an id that has no row is answered 404
\* when the actor passes the access checks (is the owner or an admin, and does
\* not send a role as a non-admin); an actor who fails them is answered 403
\* whether or not the row exists, because the access checks run before the
\* existence check.
C4_NotFoundAfterAccessControl ==
  \A p \in Procs :
    (Done(p) /\ (ValidUpdate(p) \/ ValidDelete(p)) /\ TargetAbsent(p))
    => IF PassedAccessControl(p) THEN res[p].status = 404
       ELSE res[p].status = 403

\* A non-admin owner whose own row is gone has been answered 404.
C4_Witness ==
  \E p \in Procs :
    /\ Done(p) /\ (ValidUpdate(p) \/ ValidDelete(p)) /\ TargetAbsent(p)
    /\ ActorIsOwner(p) /\ ~ActorIsAdmin(p)
    /\ res[p].status = 404

----------------------------------------------------------------------------
(* C5 *)

\* C5: an update that reaches the service for an existing user, with an email
\* that differs from the user's current one and is held by another record, is
\* answered 409 "Email already in use" for owner and admin alike and leaves
\* the table unchanged; with the user's own current email the lookup by email
\* is not made and the update succeeds.
C5_EmailConflict ==
  /\ [](\A p \in Procs :
          (ValidUpdate(p) /\ loc[p].existingUser # NoRow
             /\ req[p].body.email # Undefined) =>
            /\ (Done(p) /\ req[p].body.email # loc[p].existingUser.email
                  /\ \E i \in DOMAIN users :
                       i # req[p].params /\ users[i].email = req[p].body.email)
                => (res[p].status = 409 /\ res[p].body = EmailInUse)
            /\ req[p].body.email = loc[p].existingUser.email
                => /\ pc[p] # "updateUser_email"
                   /\ Done(p) => res[p].status = 200)
  /\ [][FailureKeepsUsers]_vars

\* A non-admin owner asked for an email that another record holds and was
\* answered 409.
C5_Witness ==
  \E p \in Procs :
    /\ Done(p) /\ ValidUpdate(p) /\ ActorIsOwner(p) /\ ~ActorIsAdmin(p)
    /\ req[p].body.email = "e2" /\ users[2].email = "e2"
    /\ res[p].status = 409

----------------------------------------------------------------------------
(* C6 *)

\* p's update statement runs on an existing row.
UpdateWrites(p) ==
  /\ pc[p] = "updateUser_write"
  /\ pc'[p] = "done"
  /\ req[p].params \in DOMAIN users

\* C6: when an update whose only change is name = X is written for an
\* existing user, getById of that user then returns name X with id, email,
\* role and createdAt as before, and no other record is changed.
C6_NameUpdateFrame ==
  [][\A p \in Procs : \A X \in Names :
       (UpdateWrites(p) /\ req[p].body = [NoUpdates EXCEPT !.name = X]) =>
         LET id == req[p].params
             before == GetUserByIdColumns(users[id])
             after == GetUserByIdColumns(users'[id])
         IN /\ DOMAIN users' = DOMAIN users
            /\ res'[p].status = 200
            /\ after.name = X
            /\ after.id = before.id
            /\ after.email = before.email
            /\ after.role = before.role
            /\ after.createdAt = before.createdAt
            /\ \A j \in DOMAIN users : j # id => users'[j] = users[j]]_vars

\* A name-only update has succeeded and the name is stored.
C6_Witness ==
  \E p \in Procs :
    /\ Done(p) /\ ValidUpdate(p)
    /\ req[p].body = [NoUpdates EXCEPT !.name = "nx"]
    /\ res[p].status = 200
    /\ users[req[p].params].name = "nx"
    /\ res[p].body.user.name = "nx"

----------------------------------------------------------------------------
(* C7 *)

\* No password property in a response body, at any depth.
PasswordFree(body) ==
  /\ "password" \notin DOMAIN body
  /\ "user" \in DOMAIN body => "password" \notin DOMAIN body.user
  /\ "users" \in DOMAIN body => \A u \in body.users : "password" \notin DOMAIN u
  /\ "result" \in DOMAIN body => "password" \notin DOMAIN body.result

\* C7: no response of list, getById, update or delete, successful or not,
\* carries a password property.
C7_NoPasswordInResponses ==
  \A p \in Procs : res[p].status # 0 => PasswordFree(res[p].body)

\* An update that changed the password has answered with the user.
C7_Witness ==
  \E p \in Procs :
    /\ Done(p) /\ ValidUpdate(p)
    /\ req[p].body.password # Undefined
    /\ res[p].status = 200
    /\ "user" \in DOMAIN res[p].body

----------------------------------------------------------------------------
(* C8 *)

\* p's update has succeeded and returned the row.
UpdateSucceeded(p) ==
  /\ Done(p) /\ req[p].method = "PUT"
  /\ res[p].status = 200
  /\ "user" \in DOMAIN res[p].body

\* C8 as stated: the updatedAt returned by a successful update is strictly
\* greater than the one the record had before.
C8_Original ==
  \A p \in Procs :
    UpdateSucceeded(p)
    => res[p].body.user.updatedAt > loc[p].existingUser.updatedAt

\* C8 (amended): every successful update of an existing user, whatever it
\* changes, sets updatedAt to the clock reading it takes; the value returned
\* is the value stored, and for updates handled one after another it is never
\* less than the record's previous updatedAt, and equal to it only when the
\* clock has not advanced since the previous value was written.
C8_UpdatedAtRefreshed ==
  \A p \in Procs :
    UpdateSucceeded(p) =>
      /\ res[p].body.user.updatedAt = users[req[p].params].updatedAt
      /\ res[p].body.user.updatedAt = loc[p].updateData.updatedAt
      /\ res[p].body.user.updatedAt = now
      /\ res[p].body.user.updatedAt >= loc[p].existingUser.updatedAt

\* A successful update has returned an updatedAt later than the previous one.
C8_Witness ==
  \E p \in Procs :
    /\ UpdateSucceeded(p)
    /\ res[p].body.user.updatedAt > loc[p].existingUser.updatedAt

----------------------------------------------------------------------------
(* C9 *)

\* C9: no stored password is a plaintext that was passed to update, and after
\* a successful update that carries a password the stored password is the hash
\* of that password.
C9_PasswordStoredHashed ==
  /\ \A i \in DOMAIN users : users[i].password \notin Passwords
  /\ \A p \in Procs :
       (UpdateSucceeded(p) /\ req[p].body.password # Undefined)
       => users[req[p].params].password = HashPassword(req[p].body.password)

\* A password has been changed by an update.
C9_Witness ==
  \E p \in Procs :
    /\ UpdateSucceeded(p)
    /\ req[p].body.password = "pw1"
    /\ users[req[p].params].password = HashPassword("pw1")
    /\ loc[p].existingUser.password # HashPassword("pw1")

----------------------------------------------------------------------------
(* C10 *)

\* C10: a delete that reaches the service for an id without a row is answered
\* 404 and leaves the table unchanged; otherwise the delete statement removes
\* exactly that row and the response acknowledges the deleted id; an id
\* without a row never gets one again, and every getById, update or delete
\* that reaches the service for it afterwards is answered 404.
C10_Delete ==
  /\ [](\A p \in Procs :
          (FromService(p) /\ req[p].method \in {"GET", "PUT", "DELETE"}
             /\ req[p].params \notin DOMAIN users)
          => \/ res[p].status = 404
             \/ /\ req[p].method = "DELETE"
                /\ loc[p].existingUser # NoRow
                /\ res[p].status = 200
                /\ res[p].body.result.id = req[p].params)
  /\ [][/\ FailureKeepsUsers
        /\ \A i \in Ids : i \notin DOMAIN users => i \notin DOMAIN users'
        /\ \A p \in Procs :
             (pc[p] = "deleteUser_delete" /\ pc'[p] = "done") =>
               /\ DOMAIN users' = DOMAIN users \ {req[p].params}
               /\ \A j \in DOMAIN users' : users'[j] = users[j]
               /\ res'[p].status = 200
               /\ res'[p].body.result.id = req[p].params]_vars

\* After user 1 was deleted, a getById of id 1 has been answered 404.
C10_Witness ==
  \E p \in Procs :
    /\ Done(p) /\ req[p].method = "GET" /\ req[p].params = 1
    /\ res[p].status = 404
    /\ 1 \notin DOMAIN users

----------------------------------------------------------------------------
(* Vocabulary of the claims about the gate. *)

\* The gate has run for the request in slot p.
GateRan(p) == gate[p].via # "none"

\* The gate answered the request in slot p itself.
GateAnswered(p) == gate[p].status # 0

\* The gate passed the request in slot p on to its route.
GatePassedOn(p) == GateRan(p) /\ ~GateAnswered(p)

\* The gate submitted the request in slot p to the decision service.
GateConsulted(p) == gate[p].via = "protect"

InProduction == NodeEnv(env) = "production"

----------------------------------------------------------------------------
\* C11: outside production mode (NODE_ENV unset included) the gate is a
\* no-op: every request is passed on, the decision service is never
\* consulted, and the gate answers no request with 403, 429 or 500.
C11_NoOpOutsideProduction ==
  \A p \in Procs :
    (~InProduction /\ GateRan(p)) =>
      /\ GatePassedOn(p)
      /\ ~GateConsulted(p)
      /\ gate[p].status \notin {403, 429, 500}

----------------------------------------------------------------------------
\* C12: in production mode a request whose User-Agent contains, whatever the
\* case, one of the allow-list signatures is passed on without the decision
\* service being consulted, and a request whose User-Agent contains none of
\* them, or is absent, is submitted to the decision service.
C12_AllowList ==
  \A p \in Procs :
    (InProduction /\ GateRan(p)) =>
      IF IsWhitelisted(gate[p].userAgent)
      THEN GatePassedOn(p) /\ ~GateConsulted(p)
      ELSE GateConsulted(p)

----------------------------------------------------------------------------
\* The ceiling for the identity a token verifies to: 20 for role admin, 10
\* for role user, 5 without a verified identity.
CeilingOfToken(token) ==
  IF JwtVerifyOk(token) THEN SecurityLimit(JwtDecoded(token).role)
  ELSE SecurityLimit("guest")

\* C13: in production mode the ceiling the gate hands to the decision service
\* for a request follows the role of the request's verified identity: 20 with
\* a valid admin token, 10 with a valid user token, 5 without a verified
\* identity.
C13_CeilingByVerifiedRole ==
  \A p \in Procs :
    (InProduction /\ GateConsulted(p)) =>
      gate[p].limit = CeilingOfToken(req[p].token)

----------------------------------------------------------------------------
\* C14: in production mode a request the decision service denies is answered
\* by the gate and never reaches a handler: 403 for a bot, 403 for shield,
\* 429 with the message of the role for the rate ceiling.
C14_DenialsAnswered ==
  \A p \in Procs :
    (InProduction /\ GateConsulted(p)
       /\ gate[p].decision \in {"bot", "shield", "rate"}) =>
      /\ GateAnswered(p)
      /\ pc[p] = "done"
      /\ gate[p].decision = "bot" =>
           res[p] = [status |-> 403, body |-> BotBlocked]
      /\ gate[p].decision = "shield" =>
           res[p] = [status |-> 403, body |-> ShieldBlocked]
      /\ gate[p].decision = "rate" =>
           res[p] = [status |-> 429,
                     body |-> TooManyRequests(SecurityMessage(gate[p].role))]

----------------------------------------------------------------------------
\* C15: when the decision service raises an error the gate is fail-open: the
\* request is passed on and the gate answers it neither with 500 nor with any
\* other response.
C15_FailOpen ==
  \A p \in Procs :
    (GateConsulted(p) /\ gate[p].decision = "error") =>
      /\ GatePassedOn(p)
      /\ pc[p] # "done"

----------------------------------------------------------------------------
\* The gate has just submitted the request in slot p to the decision service.
GateConsults(p) == pc[p] = "security" /\ GateConsulted(p)'

\* C16: in production mode, for requests of an unauthenticated actor that the
\* decision service finds neither a bot nor an attack: the rule counts each
\* request it allows, a request is passed on while fewer than 5 were counted
\* in the last minute, and the request after 5 counted ones (the 6th within
\* the minute) is answered 429.
C16_GuestCeiling ==
  /\ [](\A p \in Procs :
          (InProduction /\ GateConsulted(p) /\ gate[p].role = "guest"
             /\ gate[p].decision \in {"allow", "rate"}) =>
            /\ gate[p].seen < 5 =>
                 gate[p].decision = "allow" /\ GatePassedOn(p)
            /\ gate[p].seen >= 5 =>
                 /\ gate[p].decision = "rate"
                 /\ pc[p] = "done"
                 /\ res[p].status = 429
                 /\ res[p].body.error = "Too Many Requests")
  /\ [][\A p \in Procs :
          (InProduction /\ GateConsults(p)) =>
            /\ gate'[p].seen = hits["guest"]
            /\ hits'["guest"] =
                 IF gate'[p].decision = "allow" THEN hits["guest"] + 1
                 ELSE hits["guest"]]_vars

\* The 6th request of a run in production mode finds 5 requests counted and
\* is answered 429.
C16_Witness ==
  \E p \in Procs :
    /\ InProduction
    /\ nreq = 6
    /\ GateConsulted(p)
    /\ gate[p].role = "guest"
    /\ gate[p].seen = 5
    /\ res[p].status = 429

----------------------------------------------------------------------------
\* The step is the update statement of p, for a row that exists, setting an
\* email that another row holds at that moment.
WritesHeldEmail(p) ==
  /\ pc[p] = "updateUser_write"
  /\ pc'[p] = "done"
  /\ req[p].params \in DOMAIN users
  /\ \E j \in DOMAIN users \ {req[p].params} :
       users[j].email = loc[p].updateData.email

\* C17: the check for a held email and the update are separate statements and
\* nothing else enforces uniqueness: an update that passed the check writes
\* its email and is answered 200 although another row has taken that email in
\* between, and no other row is changed, so two rows then hold the same email.
C17_RacyEmailUpdate ==
  [][\A p \in Procs :
       WritesHeldEmail(p) =>
         LET id == req[p].params IN
           /\ res'[p].status = 200
           /\ res'[p].body.user.email = loc[p].updateData.email
           /\ users'[id].email = loc[p].updateData.email
           /\ \A j \in DOMAIN users \ {id} : users'[j] = users[j]
           /\ \E j \in DOMAIN users' \ {id} :
                users'[j].email = users'[id].email]_vars

\* Two updates that set the same new email on two different users were both
\* answered 200, and the two rows hold the same email.
C17_Witness ==
  \E p, q \in Procs :
    /\ p # q
    /\ UpdateSucceeded(p) /\ UpdateSucceeded(q)
    /\ req[p].params # req[q].params
    /\ req[p].body.email # Undefined
    /\ req[p].body.email = req[q].body.email
    /\ req[p].params \in DOMAIN users /\ req[q].params \in DOMAIN users
    /\ users[req[p].params].email = req[p].body.email
    /\ users[req[q].params].email = req[p].body.email

----------------------------------------------------------------------------
\* p's delete was answered 200.
DeleteSucceeded(p) ==
  Done(p) /\ req[p].method = "DELETE" /\ res[p].status = 200

\* C18: under any interleaving of concurrent requests an update is answered
\* 200 only with the user the write statement updated in the response (an
\* update whose target was deleted in between is not answered 200), and of
\* the deletes of one id only the one that removed the record is answered 200.
C18_SuccessOnlyOnRecord ==
  /\ \A p \in Procs :
       (Done(p) /\ req[p].method = "PUT" /\ res[p].status = 200) =>
         "user" \in DOMAIN res[p].body
  /\ \A p, q \in Procs :
       (p # q /\ DeleteSucceeded(p) /\ DeleteSucceeded(q)) =>
         req[p].params # req[q].params

----------------------------------------------------------------------------
\* The token of p's request verifies.
Verified(p) == JwtVerifyOk(req[p].token)

\* What the access checks decide from the token's payload, the target id and
\* the requested changes alone.
PayloadDenies(payload, method, id, updates) ==
  \/ payload.id # id /\ payload.role # "admin"
  \/ method = "PUT" /\ updates.role # Undefined /\ payload.role # "admin"

\* The admin role in p's token is stale: the actor's record has role user by
\* now, or is gone.
StaleAdminToken(p) ==
  /\ Verified(p)
  /\ req[p].token.role = "admin"
  /\ \/ req[p].token.id \notin DOMAIN users
     \/ users[req[p].token.id].role # "admin"

\* C19: the access decision for an update or delete is a function of the
\* verified token payload, the target id and the requested changes only,
\* whatever the table holds: 401 exactly for a token that does not verify,
\* 403 exactly when the payload is neither the owner's nor an admin's (or asks
\* for a role change without being an admin's), and otherwise the request
\* proceeds to the store. So a token issued with role admin still authorizes
\* admin-only actions after the actor's record was demoted or deleted.
C19_StatelessAccess ==
  \A p \in Procs :
    (req[p].method \in {"PUT", "DELETE"} /\ (Done(p) \/ InService(p))) =>
      /\ (Done(p) /\ res[p].status = 401) <=> ~Verified(p)
      /\ (Verified(p) /\ (ValidUpdate(p) \/ ValidDelete(p))) =>
           /\ (Done(p) /\ res[p].status = 403) <=>
                PayloadDenies(JwtDecoded(req[p].token), req[p].method,
                              req[p].params, req[p].body)
           /\ StaleAdminToken(p) => (InService(p) \/ FromService(p))

\* A request with a token issued to an admin whose record has role user or is
\* gone by now changed the role of another user and was answered 200.
C19_Witness ==
  \E p \in Procs :
    /\ StaleAdminToken(p)
    /\ UpdateSucceeded(p)
    /\ req[p].params # req[p].token.id
    /\ req[p].body.role # Undefined
    /\ users[req[p].params].role = req[p].body.role

====
